---- MODULE Spec2Model ----
(***************************************************************************)
(* Model of the schema parser of log-surgeon-rust                          *)
(* (src/parser/schema_parser/parser.rs): the construction of a             *)
(* ParsedSchema from a YAML document and the has_delimiter query.          *)
(*                                                                         *)
(* Encoding.  A Rust String is a sequence of Unicode code points; a        *)
(* serde_yaml::Value is a record whose field t is the variant and whose    *)
(* other fields carry the payload of that variant (the fields of the other *)
(* variants are empty).  A HashMap<String, Value> is a function over the   *)
(* three section keys that maps a key the map does not hold to NoEntry.    *)
(* A Result is a record with ok, the value and the error.  Every operator  *)
(* that models code also returns the log of the collaborator calls it made *)
(* (file open, read, document parser, key lookups, grammar parser), in the *)
(* order the code makes them.                                              *)
(***************************************************************************)
EXTENDS Integers, Sequences, FiniteSets

\* Longest timestamp sequence, variables mapping and delimiter string drawn.
MaxTimestamps == 2
MaxVars == 2
MaxDelimiterLen == 3

\* char::is_ascii: the code point is below 128.
AsciiLimit == 128
\* `c as u8` keeps the low eight bits of the code point.
U8Modulus == 256

----------------------------------------------------------------------------
\* Values of the document (serde_yaml::Value)

NoEntry == [t |-> "NoEntry", s |-> <<>>, items |-> <<>>, pairs |-> <<>>]
ValueString(s) == [t |-> "String", s |-> s, items |-> <<>>, pairs |-> <<>>]
\* a scalar that is not a string; the digits are kept in s
ValueNumber(s) == [t |-> "Number", s |-> s, items |-> <<>>, pairs |-> <<>>]
ValueSequence(items) == [t |-> "Sequence", s |-> <<>>, items |-> items, pairs |-> <<>>]
ValueMapping(pairs) == [t |-> "Mapping", s |-> <<>>, items |-> <<>>, pairs |-> pairs]

\* ParsedSchema::TIMESTAMP_KEY, VAR_KEY, DELIMITER_EKY
TIMESTAMP_KEY == "timestamp"
VAR_KEY == "variables"
DELIMITER_EKY == "delimiters"
SchemaKeys == {TIMESTAMP_KEY, VAR_KEY, DELIMITER_EKY}

----------------------------------------------------------------------------
\* Errors (crate::error_handling::Error) and results

NoError == [kind |-> "None", key |-> "", detail |-> 0]
IOError(e) == [kind |-> "IOError", key |-> "", detail |-> e]
YamlParsingError(e) == [kind |-> "YamlParsingError", key |-> "", detail |-> e]
MissingSchemaKey(key) == [kind |-> "MissingSchemaKey", key |-> key, detail |-> 0]
InvalidSchema == [kind |-> "InvalidSchema", key |-> "", detail |-> 0]
NoneASCIICharacters == [kind |-> "NoneASCIICharacters", key |-> "", detail |-> 0]
\* the grammar parser's own error, carrying the offending position
RegexParsingError(pos) == [kind |-> "RegexParsingError", key |-> "", detail |-> pos]

\* events of the call log
Event(op, key, arg) == [op |-> op, key |-> key, arg |-> arg]

----------------------------------------------------------------------------
\* The grammar parser (crate::parser::regex_parser): parse(pattern) gives the
\* AST or a syntax error.  The grammar kept here is literals and groups: the
\* AST lists the literals with their nesting depth, and a pattern with an
\* unbalanced parenthesis (code points 40 and 41) is a syntax error at the
\* position where it shows.

RECURSIVE ScanRegex(_, _, _, _)
ScanRegex(regex, i, depth, ast) ==
    IF i > Len(regex)
    THEN IF depth = 0
         THEN [ok |-> TRUE, ast |-> ast, pos |-> 0]
         ELSE [ok |-> FALSE, ast |-> <<>>, pos |-> i]
    ELSE IF regex[i] = 40
         THEN ScanRegex(regex, i + 1, depth + 1, ast)
         ELSE IF regex[i] = 41
              THEN IF depth = 0
                   THEN [ok |-> FALSE, ast |-> <<>>, pos |-> i]
                   ELSE ScanRegex(regex, i + 1, depth - 1, ast)
              ELSE ScanRegex(regex, i + 1, depth,
                             Append(ast, [lit |-> regex[i], depth |-> depth]))

ParseIntoAst(regex) == ScanRegex(regex, 1, 0, <<>>)

----------------------------------------------------------------------------
\* Schema entries

NoSchema == [tag |-> "None", name |-> <<>>, regex |-> <<>>, ast |-> <<>>]

\* TimestampSchema::new wrapped in Schema::Timestamp (a timestamp entry has
\* no name: the field is empty)
TimestampSchemaNew(regex) ==
    LET r == ParseIntoAst(regex)
        call == Event("parse_into_ast", "", regex)
    IN  IF r.ok
        THEN [ok |-> TRUE, err |-> NoError, call |-> call,
              val |-> [tag |-> "Timestamp", name |-> <<>>, regex |-> regex, ast |-> r.ast]]
        ELSE [ok |-> FALSE, err |-> RegexParsingError(r.pos), call |-> call,
              val |-> NoSchema]

\* VarSchema::new with the two String arguments stored in each other's field
VarSchemaNewSwapped(name, regex) ==
    LET r == ParseIntoAst(regex)
        call == Event("parse_into_ast", "", regex)
    IN  IF r.ok
        THEN [ok |-> TRUE, err |-> NoError, call |-> call,
              val |-> [tag |-> "Var", name |-> regex, regex |-> name, ast |-> r.ast]]
        ELSE [ok |-> FALSE, err |-> RegexParsingError(r.pos), call |-> call,
              val |-> NoSchema]

\* VarSchema::new wrapped in Schema::Var
VarSchemaNew(name, regex) ==
    LET r == ParseIntoAst(regex)
        call == Event("parse_into_ast", "", regex)
    IN  IF r.ok
        THEN [ok |-> TRUE, err |-> NoError, call |-> call,
              val |-> [tag |-> "Var", name |-> name, regex |-> regex, ast |-> r.ast]]
        ELSE [ok |-> FALSE, err |-> RegexParsingError(r.pos), call |-> call,
              val |-> NoSchema]

----------------------------------------------------------------------------
\* ParsedSchema and its construction

NoParsedSchema == [schemas |-> <<>>, delimiters |-> {}]

\* get_key_value naming VAR_KEY in the error, whatever key is missing
GetKeyValueWrongKey(kv_map, key) ==
    IF kv_map[key].t # "NoEntry"
    THEN [ok |-> TRUE, err |-> NoError, val |-> kv_map[key]]
    ELSE [ok |-> FALSE, err |-> MissingSchemaKey(VAR_KEY), val |-> NoEntry]

\* ParsedSchema::get_key_value
GetKeyValue(kv_map, key) ==
    IF kv_map[key].t # "NoEntry"
    THEN [ok |-> TRUE, err |-> NoError, val |-> kv_map[key]]
    ELSE [ok |-> FALSE, err |-> MissingSchemaKey(key), val |-> NoEntry]

\* The locals of load_from_kv_pairs: schemas, delimiters, and whether and how
\* the function has returned early.
InitialBuild ==
    [ok |-> TRUE, err |-> NoError, schemas |-> <<>>, delimiters |-> {}, log |-> <<>>]

Abort(st, e) == [st EXCEPT !.ok = FALSE, !.err = e]

Logged(st, ev) == [st EXCEPT !.log = Append(@, ev)]

\* sequence.iter().try_for_each(..)?
RECURSIVE TimestampLoop(_, _, _)
TimestampLoop(sequence, i, st) ==
    IF i > Len(sequence)
    THEN st
    ELSE LET val == sequence[i]
         IN  IF val.t = "String"
             THEN LET r == TimestampSchemaNew(val.s)
                      st1 == Logged(st, r.call)
                  IN  IF r.ok
                      THEN TimestampLoop(sequence, i + 1,
                                         [st1 EXCEPT !.schemas = Append(@, r.val)])
                      ELSE Abort(st1, r.err)
             ELSE Abort(st, InvalidSchema)

\* "Handle timestamps" with the iteration starting one element late
HandleTimestampsSkipFirst(kv_pairs, st) ==
    LET timestamps == GetKeyValue(kv_pairs, TIMESTAMP_KEY)
        st1 == Logged(st, Event("get_key_value", TIMESTAMP_KEY, <<>>))
    IN  IF ~timestamps.ok
        THEN Abort(st1, timestamps.err)
        ELSE IF timestamps.val.t = "Sequence"
             THEN TimestampLoop(timestamps.val.items, 2, st1)
             ELSE Abort(st1, InvalidSchema)

\* "Handle timestamps"
HandleTimestamps(kv_pairs, st) ==
    LET timestamps == GetKeyValue(kv_pairs, TIMESTAMP_KEY)
        st1 == Logged(st, Event("get_key_value", TIMESTAMP_KEY, <<>>))
    IN  IF ~timestamps.ok
        THEN Abort(st1, timestamps.err)
        ELSE IF timestamps.val.t = "Sequence"
             THEN TimestampLoop(timestamps.val.items, 1, st1)
             ELSE Abort(st1, InvalidSchema)

\* for (key, value) in map { match (key, value) .. }
RECURSIVE VariablesLoop(_, _, _)
VariablesLoop(map, i, st) ==
    IF i > Len(map)
    THEN st
    ELSE LET key == map[i][1]
             value == map[i][2]
         IN  IF key.t = "String" /\ value.t = "String"
             THEN LET r == VarSchemaNew(key.s, value.s)
                      st1 == Logged(st, r.call)
                  IN  IF r.ok
                      THEN VariablesLoop(map, i + 1,
                                         [st1 EXCEPT !.schemas = Append(@, r.val)])
                      ELSE Abort(st1, r.err)
             ELSE Abort(st, InvalidSchema)

\* "Handle variables" taking a value that is no mapping for no variables
HandleVariablesLenient(kv_pairs, st) ==
    LET vars == GetKeyValue(kv_pairs, VAR_KEY)
        st1 == Logged(st, Event("get_key_value", VAR_KEY, <<>>))
    IN  IF ~vars.ok
        THEN Abort(st1, vars.err)
        ELSE IF vars.val.t = "Mapping"
             THEN VariablesLoop(vars.val.pairs, 1, st1)
             ELSE st1

\* "Handle variables"
HandleVariables(kv_pairs, st) ==
    LET vars == GetKeyValue(kv_pairs, VAR_KEY)
        st1 == Logged(st, Event("get_key_value", VAR_KEY, <<>>))
    IN  IF ~vars.ok
        THEN Abort(st1, vars.err)
        ELSE IF vars.val.t = "Mapping"
             THEN VariablesLoop(vars.val.pairs, 1, st1)
             ELSE Abort(st1, InvalidSchema)

\* the delimiter loop passing over a non-ASCII character (continue) where
\* the code returns the error
RECURSIVE DelimiterLoopSkipNonAscii(_, _, _)
DelimiterLoopSkipNonAscii(delimiter_str, i, st) ==
    IF i > Len(delimiter_str)
    THEN st
    ELSE LET c == delimiter_str[i]
             st1 == Logged(st, Event("is_ascii", "", <<c>>))
         IN  IF ~(c < AsciiLimit)
             THEN DelimiterLoopSkipNonAscii(delimiter_str, i + 1, st1)
             ELSE DelimiterLoopSkipNonAscii(delimiter_str, i + 1,
                                [st1 EXCEPT !.delimiters = @ \cup {c % U8Modulus}])

\* for c in delimiter_str.chars() { .. }
RECURSIVE DelimiterLoop(_, _, _)
DelimiterLoop(delimiter_str, i, st) ==
    IF i > Len(delimiter_str)
    THEN st
    ELSE LET c == delimiter_str[i]
             st1 == Logged(st, Event("is_ascii", "", <<c>>))
         IN  IF ~(c < AsciiLimit)
             THEN Abort(st1, NoneASCIICharacters)
             ELSE DelimiterLoop(delimiter_str, i + 1,
                                [st1 EXCEPT !.delimiters = @ \cup {c % U8Modulus}])

\* "Handle delimiter"
HandleDelimiter(kv_pairs, st) ==
    LET delimiter == GetKeyValue(kv_pairs, DELIMITER_EKY)
        st1 == Logged(st, Event("get_key_value", DELIMITER_EKY, <<>>))
    IN  IF ~delimiter.ok
        THEN Abort(st1, delimiter.err)
        ELSE IF delimiter.val.t = "String"
             THEN DelimiterLoop(delimiter.val.s, 1, st1)
             ELSE Abort(st1, InvalidSchema)

\* what load_from_kv_pairs returns whatever was accumulated, the early
\* returns lost
ReturnedValueKeepPartial(st) ==
    [ok |-> TRUE, err |-> NoError, log |-> st.log,
     val |-> [schemas |-> st.schemas, delimiters |-> st.delimiters]]

\* What load_from_kv_pairs returns: Ok(Self { delimiters, schemas }) at its
\* end, and the error alone, the locals dropped, at a `?` or `return Err(..)`.
ReturnedValue(st) ==
    IF st.ok
    THEN [ok |-> TRUE, err |-> NoError, log |-> st.log,
          val |-> [schemas |-> st.schemas, delimiters |-> st.delimiters]]
    ELSE [ok |-> FALSE, err |-> st.err, log |-> st.log, val |-> NoParsedSchema]

\* load_from_kv_pairs with the variables handled before the timestamps
LoadFromKvPairsVarsFirst(kv_pairs) ==
    LET st1 == HandleVariables(kv_pairs, InitialBuild)
        st2 == IF st1.ok THEN HandleTimestamps(kv_pairs, st1) ELSE st1
        st3 == IF st2.ok THEN HandleDelimiter(kv_pairs, st2) ELSE st2
    IN  ReturnedValue(st3)

\* load_from_kv_pairs with the three keys looked up before any section is
\* built
LoadFromKvPairsKeysFirst(kv_pairs) ==
    LET timestamps == GetKeyValue(kv_pairs, TIMESTAMP_KEY)
        vars == GetKeyValue(kv_pairs, VAR_KEY)
        delimiter == GetKeyValue(kv_pairs, DELIMITER_EKY)
        st1 == HandleTimestamps(kv_pairs, InitialBuild)
        st2 == IF st1.ok THEN HandleVariables(kv_pairs, st1) ELSE st1
        st3 == IF st2.ok THEN HandleDelimiter(kv_pairs, st2) ELSE st2
    IN  IF ~timestamps.ok THEN ReturnedValue(Abort(InitialBuild, timestamps.err))
        ELSE IF ~vars.ok THEN ReturnedValue(Abort(InitialBuild, vars.err))
        ELSE IF ~delimiter.ok THEN ReturnedValue(Abort(InitialBuild, delimiter.err))
        ELSE ReturnedValue(st3)

\* ParsedSchema::load_from_kv_pairs: the three sections in turn, the next one
\* only when the one before did not return.
LoadFromKvPairs(kv_pairs) ==
    LET st1 == HandleTimestamps(kv_pairs, InitialBuild)
        st2 == IF st1.ok THEN HandleVariables(kv_pairs, st1) ELSE st1
        st3 == IF st2.ok THEN HandleDelimiter(kv_pairs, st2) ELSE st2
    IN  ReturnedValue(st3)

\* ParsedSchema::load_kv_pairs_from_yaml_content: serde_yaml::from_str gives
\* the key/value map of a well-formed text and its own error otherwise.
LoadKvPairsFromYamlContent(yaml_content) ==
    IF yaml_content.wellformed
    THEN [ok |-> TRUE, err |-> 0, val |-> yaml_content.kv]
    ELSE [ok |-> FALSE, err |-> yaml_content.diagnostic, val |-> yaml_content.kv]

\* parse_from_str wrapping every error as YamlParsingError
ParseFromStrWrapAll(yaml_content) ==
    LET r == LoadKvPairsFromYamlContent(yaml_content)
        call == Event("serde_yaml::from_str", "", <<>>)
        b == LoadFromKvPairs(r.val)
    IN  IF r.ok /\ b.ok
        THEN [b EXCEPT !.log = <<call>> \o @]
        ELSE [ok |-> FALSE, err |-> YamlParsingError(yaml_content.diagnostic),
              log |-> IF r.ok THEN <<call>> \o b.log ELSE <<call>>,
              val |-> NoParsedSchema]

\* ParsedSchema::parse_from_str
ParseFromStr(yaml_content) ==
    LET r == LoadKvPairsFromYamlContent(yaml_content)
        call == Event("serde_yaml::from_str", "", <<>>)
    IN  IF r.ok
        THEN LET b == LoadFromKvPairs(r.val)
             IN  [b EXCEPT !.log = <<call>> \o @]
        ELSE [ok |-> FALSE, err |-> YamlParsingError(r.err), log |-> <<call>>,
              val |-> NoParsedSchema]

\* ParsedSchema::parse_from_file
ParseFromFile(file) ==
    LET open == Event("File::open", "", <<>>)
        read == Event("read_to_string", "", <<>>)
    IN  IF file.status = "open_fail"
        THEN [ok |-> FALSE, err |-> IOError(file.io_error), log |-> <<open>>,
              val |-> NoParsedSchema]
        ELSE IF file.status = "read_fail"
             THEN [ok |-> FALSE, err |-> IOError(file.io_error), log |-> <<open, read>>,
                   val |-> NoParsedSchema]
             ELSE LET r == ParseFromStr(file.contents)
                  IN  [r EXCEPT !.log = <<open, read>> \o @]

\* ParsedSchema::get_schemas
GetSchemas(self) == self.schemas

\* has_delimiter without the is_ascii guard
HasDelimiterNoAsciiCheck(self, delimiter) ==
    (delimiter % U8Modulus) \in self.delimiters

\* ParsedSchema::has_delimiter
HasDelimiter(self, delimiter) ==
    IF ~(delimiter < AsciiLimit)
    THEN FALSE
    ELSE (delimiter % U8Modulus) \in self.delimiters

----------------------------------------------------------------------------
\* The documents, files and query characters drawn

SeqsUpTo(S, n) == UNION {[1..k -> S] : k \in 0..n}

\* timestamp elements: the patterns "a" and "(a)", the unparsable pattern
\* "(", and a scalar that is not a string
TimestampElements ==
    {ValueString(<<97>>), ValueString(<<40, 97, 41>>), ValueString(<<40>>),
     ValueNumber(<<49>>)}

TimestampValues ==
    {NoEntry, ValueString(<<97>>)}
        \cup {ValueSequence(s) : s \in SeqsUpTo(TimestampElements, MaxTimestamps)}

\* variable pairs: ip: "b", id: "(b)", ip: ")" (unparsable), id: 123 (value
\* not a string), 1: "b" (key not a string)
VarPairs ==
    {<<ValueString(<<105, 112>>), ValueString(<<98>>)>>,
     <<ValueString(<<105, 100>>), ValueString(<<40, 98, 41>>)>>,
     <<ValueString(<<105, 112>>), ValueString(<<41>>)>>,
     <<ValueString(<<105, 100>>), ValueNumber(<<49, 50, 51>>)>>,
     <<ValueNumber(<<49>>), ValueString(<<98>>)>>}

\* the keys of a mapping are distinct
DistinctKeys(m) == \A i, j \in 1..Len(m) : m[i][1] = m[j][1] => i = j

VariablesValues ==
    {NoEntry, ValueSequence(<<>>)}
        \cup {ValueMapping(m) : m \in {x \in SeqsUpTo(VarPairs, MaxVars) : DistinctKeys(x)}}

\* ':' and ',' are ASCII; U+00E9 is not
DelimiterChars == {58, 44, 233}

DelimiterValues ==
    {NoEntry, ValueNumber(<<49>>)}
        \cup {ValueString(s) : s \in SeqsUpTo(DelimiterChars, MaxDelimiterLen)}

Docs ==
    {[k \in SchemaKeys |->
         IF k = TIMESTAMP_KEY THEN tv ELSE IF k = VAR_KEY THEN vv ELSE dv] :
        tv \in TimestampValues, vv \in VariablesValues, dv \in DelimiterValues}

Malformed ==
    [wellformed |-> FALSE, diagnostic |-> 1, kv |-> [k \in SchemaKeys |-> NoEntry]]

Contents ==
    {Malformed} \cup {[wellformed |-> TRUE, diagnostic |-> 0, kv |-> d] : d \in Docs}

Files ==
    {[status |-> "open_fail", io_error |-> 2, contents |-> Malformed],
     [status |-> "read_fail", io_error |-> 5, contents |-> Malformed]}
        \cup {[status |-> "ok", io_error |-> 0, contents |-> c] : c \in Contents}

\* ':' ',' '|' U+00E9 and U+013A (whose low eight bits are those of ':')
QueryChars == {58, 44, 124, 233, 314}

----------------------------------------------------------------------------
\* State

VARIABLES
    yaml_file,  \* the file at the path given to parse_from_file, and its text
    call,       \* the entry point that was called, "none" before the call
    result,     \* what that call returned, with the log of the calls it made
    query,      \* the last has_delimiter query and its answer
    removed     \* the section key taken out of the document since it was
                \* built with success, "" when none was

vars == <<yaml_file, call, result, query, removed>>

NoResult == [ok |-> FALSE, err |-> NoError, log |-> <<>>, val |-> NoParsedSchema]
NoQuery == [asked |-> FALSE, c |-> 0, ret |-> FALSE]

Init ==
    /\ yaml_file \in Files
    /\ call = "none"
    /\ result = NoResult
    /\ query = NoQuery
    /\ removed = ""

\* a caller hands the path to parse_from_file
CallParseFromFile ==
    /\ call = "none"
    /\ call' = "parse_from_file"
    /\ result' = ParseFromFile(yaml_file)
    /\ UNCHANGED <<yaml_file, query, removed>>

\* a caller that holds the text hands it to parse_from_str
CallParseFromStr ==
    /\ call = "none"
    /\ yaml_file.status = "ok"
    /\ call' = "parse_from_str"
    /\ result' = ParseFromStr(yaml_file.contents)
    /\ UNCHANGED <<yaml_file, query, removed>>

\* a caller that holds a ParsedSchema asks has_delimiter
CallHasDelimiter ==
    /\ call # "none"
    /\ result.ok
    /\ \E c \in QueryChars :
           query' = [asked |-> TRUE, c |-> c, ret |-> HasDelimiter(result.val, c)]
    /\ UNCHANGED <<yaml_file, call, result, removed>>

\* a document that was built with success loses one of its three top-level
\* keys and is handed to the same entry point again
RemoveKeyAndParseAgain ==
    /\ call # "none"
    /\ result.ok
    /\ \E k \in SchemaKeys :
           /\ removed' = k
           /\ yaml_file' = [yaml_file EXCEPT !.contents.kv[k] = NoEntry]
    /\ result' = IF call = "parse_from_file"
                 THEN ParseFromFile(yaml_file')
                 ELSE ParseFromStr(yaml_file'.contents)
    /\ query' = NoQuery
    /\ UNCHANGED call

Next ==
    \/ CallParseFromFile
    \/ CallParseFromStr
    \/ CallHasDelimiter
    \/ RemoveKeyAndParseAgain

Spec == Init /\ [][Next]_vars

----------------------------------------------------------------------------
\* What the properties speak about

\* the key/value document of the text
Doc == yaml_file.contents.kv

\* the call has returned
Returned == call # "none"

\* the call has returned and the document parser gave it Doc
DocumentLoaded ==
    Returned /\ yaml_file.status = "ok" /\ yaml_file.contents.wellformed

\* the call has returned a ParsedSchema
Built == Returned /\ result.ok

SrcTimestamps == Doc[TIMESTAMP_KEY].items
SrcVars == Doc[VAR_KEY].pairs
SrcDelimiters == Doc[DELIMITER_EKY].s

CharsOf(s) == {s[i] : i \in 1..Len(s)}

IsStringPair(pair) == pair[1].t = "String" /\ pair[2].t = "String"

\* a section as the specification wants it
TimestampSectionValid(doc) ==
    /\ doc[TIMESTAMP_KEY].t = "Sequence"
    /\ \A i \in 1..Len(doc[TIMESTAMP_KEY].items) :
           /\ doc[TIMESTAMP_KEY].items[i].t = "String"
           /\ ParseIntoAst(doc[TIMESTAMP_KEY].items[i].s).ok

VarSectionValid(doc) ==
    /\ doc[VAR_KEY].t = "Mapping"
    /\ \A i \in 1..Len(doc[VAR_KEY].pairs) :
           /\ IsStringPair(doc[VAR_KEY].pairs[i])
           /\ ParseIntoAst(doc[VAR_KEY].pairs[i][2].s).ok

DelimiterSectionValid(doc) ==
    /\ doc[DELIMITER_EKY].t = "String"
    /\ \A i \in 1..Len(doc[DELIMITER_EKY].s) : doc[DELIMITER_EKY].s[i] < 128

IsParseCall(e) == e.op = "parse_into_ast"
ParseCalls(log) == SelectSeq(log, IsParseCall)
OpsOf(log) == {log[i].op : i \in 1..Len(log)}

----------------------------------------------------------------------------
\* C1: a document that is accepted, with N timestamp strings, M variable
\* pairs and a delimiter string with K' distinct characters, gives exactly
\* N+M entries and exactly K' delimiters; the document with an empty
\* sequence, an empty mapping and an empty string is accepted and gives
\* empty collections.
C1_EntryAndDelimiterCounts ==
    /\ Built =>
           /\ Len(GetSchemas(result.val)) = Len(SrcTimestamps) + Len(SrcVars)
           /\ Cardinality(result.val.delimiters) = Cardinality(CharsOf(SrcDelimiters))
    /\ ( /\ DocumentLoaded
         /\ Doc[TIMESTAMP_KEY] = ValueSequence(<<>>)
         /\ Doc[VAR_KEY] = ValueMapping(<<>>)
         /\ Doc[DELIMITER_EKY] = ValueString(<<>>) ) =>
           /\ result.ok
           /\ result.val = [schemas |-> <<>>, delimiters |-> {}]

\* two timestamps, two variables and a delimiter string with a repeated
\* character have been built
C1_Witness ==
    /\ Built
    /\ Len(SrcTimestamps) = 2
    /\ Len(SrcVars) = 2
    /\ Len(SrcDelimiters) = 3
    /\ Cardinality(CharsOf(SrcDelimiters)) = 2
    /\ Len(result.val.schemas) = 4
    /\ Cardinality(result.val.delimiters) = 2

\* C2: in a built schema the first N entries are Timestamp entries whose
\* i-th regex is the i-th source timestamp string, the next M entries are
\* Var entries, and no Var entry precedes a Timestamp entry.
C2_TimestampsFirstInSourceOrder ==
    Built =>
        LET schemas == GetSchemas(result.val)
            N == Len(SrcTimestamps)
            M == Len(SrcVars)
        IN  /\ \A i \in 1..N :
                   /\ i \in DOMAIN schemas
                   /\ schemas[i].tag = "Timestamp"
                   /\ schemas[i].regex = SrcTimestamps[i].s
            /\ \A i \in (N + 1)..(N + M) :
                   /\ i \in DOMAIN schemas
                   /\ schemas[i].tag = "Var"
            /\ \A i, j \in DOMAIN schemas :
                   (schemas[i].tag = "Var" /\ schemas[j].tag = "Timestamp") => j < i

\* two different timestamp patterns and a variable have been built
C2_Witness ==
    /\ Built
    /\ Len(SrcTimestamps) = 2
    /\ SrcTimestamps[1] # SrcTimestamps[2]
    /\ Len(SrcVars) >= 1
    /\ result.val.schemas[1].regex = SrcTimestamps[1].s
    /\ result.val.schemas[3].tag = "Var"

\* C3: has_delimiter(c) is true exactly when c is ASCII and occurs in the
\* source delimiter string, false for every non-ASCII c, and the query leaves
\* the schema as it was.
C3_HasDelimiter ==
    /\ [](query.asked =>
            /\ query.ret <=> (query.c < 128 /\ query.c \in CharsOf(SrcDelimiters))
            /\ (query.c >= 128 => ~query.ret))
    /\ [][query' # query /\ query'.asked => result' = result /\ result.ok]_vars

\* a non-ASCII character whose low byte is a delimiter has been asked for
C3_Witness ==
    /\ query.asked
    /\ query.c >= 256
    /\ (query.c % 256) \in result.val.delimiters
    /\ ~query.ret

\* C4: after one of the three keys is removed from a document that was
\* built with success, building again gives MissingSchemaKey of exactly the
\* removed key.
C4_MissingKeyNamesRemovedKey ==
    removed # "" => (~result.ok /\ result.err = MissingSchemaKey(removed))

\* the delimiters key was removed and the build reported it
C4_Witness ==
    /\ removed = DELIMITER_EKY
    /\ Len(Doc[TIMESTAMP_KEY].items) > 0
    /\ result.err = MissingSchemaKey(DELIMITER_EKY)

\* The defects of a document, every one of them, listed in the processing
\* order the specification fixes; a check that passes is listed as NoError.
ElementDefect(val) ==
    IF val.t # "String"
    THEN InvalidSchema
    ELSE IF ParseIntoAst(val.s).ok
         THEN NoError
         ELSE RegexParsingError(ParseIntoAst(val.s).pos)

PairDefect(pair) ==
    IF ~IsStringPair(pair)
    THEN InvalidSchema
    ELSE IF ParseIntoAst(pair[2].s).ok
         THEN NoError
         ELSE RegexParsingError(ParseIntoAst(pair[2].s).pos)

CharDefect(c) == IF c < 128 THEN NoError ELSE NoneASCIICharacters

SectionDefects(doc, key, shape, inner) ==
    IF doc[key].t = "NoEntry"
    THEN <<MissingSchemaKey(key)>>
    ELSE IF doc[key].t # shape THEN <<InvalidSchema>> ELSE inner

Defects(doc) ==
    SectionDefects(doc, "timestamp", "Sequence",
        [i \in 1..Len(doc["timestamp"].items) |-> ElementDefect(doc["timestamp"].items[i])])
    \o SectionDefects(doc, "variables", "Mapping",
        [i \in 1..Len(doc["variables"].pairs) |-> PairDefect(doc["variables"].pairs[i])])
    \o SectionDefects(doc, "delimiters", "String",
        [i \in 1..Len(doc["delimiters"].s) |-> CharDefect(doc["delimiters"].s[i])])

DefectCount(doc) ==
    Cardinality({i \in 1..Len(Defects(doc)) : Defects(doc)[i] # NoError})

FirstDefect(doc) ==
    LET d == Defects(doc)
        bad == {i \in 1..Len(d) : d[i] # NoError}
    IN  IF bad = {} THEN NoError
        ELSE d[CHOOSE i \in bad : \A j \in bad : i <= j]

\* C5: the build of a document returns the error of the defect met first in
\* the order timestamp key, timestamp elements, variables key, variable
\* pairs, delimiters key, delimiter characters, whatever defects follow it,
\* and succeeds only when there is none.
C5_FirstDefectIsReported ==
    DocumentLoaded =>
        /\ result.err = FirstDefect(Doc)
        /\ result.ok <=> (FirstDefect(Doc) = NoError)

\* a document whose timestamp sequence holds an unparsable pattern before a
\* non-string element, and whose later sections are defective too, was
\* refused with the syntax error of the pattern
C5_Witness ==
    /\ DocumentLoaded
    /\ DefectCount(Doc) >= 4
    /\ Doc[TIMESTAMP_KEY].t = "Sequence"
    /\ Len(SrcTimestamps) = 2
    /\ SrcTimestamps[1].t = "String"
    /\ SrcTimestamps[2].t # "String"
    /\ result.err.kind = "RegexParsingError"

\* C6: a build ends either with an error and no ParsedSchema, or with a
\* ParsedSchema for which the three sections were present and well shaped,
\* every pattern handed to the grammar parser was accepted, every entry has
\* the AST of its pattern and every delimiter code is below 128.
C6_AllOrNothing ==
    Returned =>
        /\ ~result.ok => (result.err # NoError /\ result.val = NoParsedSchema)
        /\ result.ok =>
               /\ result.err = NoError
               /\ DocumentLoaded
               /\ Doc[TIMESTAMP_KEY].t = "Sequence"
               /\ Doc[VAR_KEY].t = "Mapping"
               /\ Doc[DELIMITER_EKY].t = "String"
               /\ \A i \in 1..Len(result.log) :
                      /\ IsParseCall(result.log[i]) => ParseIntoAst(result.log[i].arg).ok
                      /\ result.log[i].op = "is_ascii" => result.log[i].arg[1] < 128
                      /\ result.log[i].op = "get_key_value" =>
                             Doc[result.log[i].key].t # "NoEntry"
               /\ \A i \in 1..Len(result.val.schemas) :
                      /\ ParseIntoAst(result.val.schemas[i].regex).ok
                      /\ result.val.schemas[i].ast =
                             ParseIntoAst(result.val.schemas[i].regex).ast
               /\ \A d \in result.val.delimiters : d < 128

\* a build failed at the last delimiter character, after entries and
\* delimiters had been accumulated, and returned no schema
C6_Witness ==
    /\ DocumentLoaded
    /\ TimestampSectionValid(Doc) /\ Len(SrcTimestamps) > 0
    /\ VarSectionValid(Doc) /\ Len(SrcVars) > 0
    /\ Doc[DELIMITER_EKY].t = "String"
    /\ Len(SrcDelimiters) = 3
    /\ SrcDelimiters[1] < 128 /\ SrcDelimiters[2] < 128 /\ SrcDelimiters[3] >= 128
    /\ ~result.ok
    /\ result.val = NoParsedSchema

\* C7: when the timestamp and variables sections build and the delimiters
\* value is a string holding a character with code point 128 or more, at
\* whatever position, the build returns NoneASCIICharacters and no schema.
C7_NonAsciiDelimiterRefused ==
    ( /\ DocumentLoaded
      /\ TimestampSectionValid(Doc)
      /\ VarSectionValid(Doc)
      /\ Doc[DELIMITER_EKY].t = "String"
      /\ \E i \in 1..Len(SrcDelimiters) : SrcDelimiters[i] >= 128 ) =>
        /\ ~result.ok
        /\ result.err = NoneASCIICharacters
        /\ result.val = NoParsedSchema

\* the non-ASCII character stood between two ASCII characters
C7_Witness ==
    /\ DocumentLoaded
    /\ TimestampSectionValid(Doc)
    /\ VarSectionValid(Doc)
    /\ Doc[DELIMITER_EKY].t = "String"
    /\ Len(SrcDelimiters) = 3
    /\ SrcDelimiters[1] < 128 /\ SrcDelimiters[2] >= 128 /\ SrcDelimiters[3] < 128
    /\ result.err = NoneASCIICharacters

\* C8: a section that is present with the wrong shape gives InvalidSchema
\* when every earlier check passes: a timestamp value that is no sequence, a
\* timestamp element that is no string, a variables value that is no
\* mapping, a variable pair whose key or value is no string, a delimiters
\* value that is no string.
C8_WrongShapeIsInvalidSchema ==
    DocumentLoaded =>
        LET ts == Doc[TIMESTAMP_KEY]
            vs == Doc[VAR_KEY]
            ds == Doc[DELIMITER_EKY]
            refused == ~result.ok /\ result.err = InvalidSchema
        IN  /\ ts.t \notin {"NoEntry", "Sequence"} => refused
            /\ ( /\ ts.t = "Sequence"
                 /\ \E i \in 1..Len(ts.items) :
                        /\ ts.items[i].t # "String"
                        /\ \A j \in 1..(i - 1) : ElementDefect(ts.items[j]) = NoError )
               => refused
            /\ (TimestampSectionValid(Doc) /\ vs.t \notin {"NoEntry", "Mapping"})
               => refused
            /\ ( /\ TimestampSectionValid(Doc)
                 /\ vs.t = "Mapping"
                 /\ \E i \in 1..Len(vs.pairs) :
                        /\ ~IsStringPair(vs.pairs[i])
                        /\ \A j \in 1..(i - 1) : PairDefect(vs.pairs[j]) = NoError )
               => refused
            /\ ( /\ TimestampSectionValid(Doc)
                 /\ VarSectionValid(Doc)
                 /\ ds.t \notin {"NoEntry", "String"} )
               => refused

\* variables: {ip: "b", id: 123} after a valid timestamp section was refused
C8_Witness ==
    /\ DocumentLoaded
    /\ TimestampSectionValid(Doc) /\ Len(SrcTimestamps) > 0
    /\ Doc[VAR_KEY].t = "Mapping"
    /\ Len(SrcVars) = 2
    /\ IsStringPair(SrcVars[1])
    /\ SrcVars[2][1].t = "String" /\ SrcVars[2][2].t = "Number"
    /\ result.err = InvalidSchema

\* C9: parse_from_file returns IOError when the open or the read fails and
\* then never calls the document parser; a failure of the document parser is
\* returned as YamlParsingError with no key lookup or entry building; only
\* the document parser's errors are wrapped so, and the stages are called in
\* the order open, read, document parser, section building.
C9_StagesInOrder ==
    Returned =>
        /\ (call = "parse_from_file" /\ yaml_file.status # "ok") =>
               /\ ~result.ok
               /\ result.err = IOError(yaml_file.io_error)
               /\ OpsOf(result.log) \subseteq {"File::open", "read_to_string"}
        /\ (yaml_file.status = "ok" /\ ~yaml_file.contents.wellformed) =>
               /\ ~result.ok
               /\ result.err = YamlParsingError(yaml_file.contents.diagnostic)
               /\ OpsOf(result.log) \subseteq
                      {"File::open", "read_to_string", "serde_yaml::from_str"}
        /\ DocumentLoaded =>
               /\ result.err.kind \notin {"IOError", "YamlParsingError"}
               /\ "get_key_value" \in OpsOf(result.log)
        /\ \A i, j \in 1..Len(result.log) :
               ( \/ result.log[j].op = "File::open"
                 \/ (result.log[j].op = "read_to_string" /\ result.log[i].op # "File::open")
                 \/ ( /\ result.log[j].op = "serde_yaml::from_str"
                      /\ result.log[i].op \notin {"File::open", "read_to_string"} ) )
               => j <= i

\* a file that was read but is no well-formed document was refused by
\* parse_from_file with the document parser's error
C9_Witness ==
    /\ call = "parse_from_file"
    /\ yaml_file.status = "ok"
    /\ ~yaml_file.contents.wellformed
    /\ result.err.kind = "YamlParsingError"
    /\ Len(result.log) = 3

\* C10: every entry of a built schema stores as regex exactly the string
\* that was handed to the grammar parser for it, its ast is the AST of that
\* string, and a variable entry stores as name the key paired with that
\* pattern in the source.
C10_RegexIsTheParsedSource ==
    Built =>
        LET schemas == GetSchemas(result.val)
            parses == ParseCalls(result.log)
            N == Len(SrcTimestamps)
        IN  /\ Len(parses) = Len(schemas)
            /\ \A i \in 1..Len(schemas) :
                   /\ schemas[i].regex = parses[i].arg
                   /\ schemas[i].ast = ParseIntoAst(parses[i].arg).ast
                   /\ i <= N => schemas[i].regex = SrcTimestamps[i].s
                   /\ i > N =>
                          /\ schemas[i].name = SrcVars[i - N][1].s
                          /\ schemas[i].regex = SrcVars[i - N][2].s

\* two variables with different patterns were built after a timestamp
C10_Witness ==
    /\ Built
    /\ Len(SrcTimestamps) = 1
    /\ Len(SrcVars) = 2
    /\ SrcVars[1][2] # SrcVars[2][2]
    /\ result.val.schemas[2].name = SrcVars[1][1].s
    /\ result.val.schemas[3].regex = SrcVars[2][2].s

====
